---- MODULE Spec2Model ----
(***************************************************************************)
(* Model of caption-it (src/src/index.js, lines 1-745, and the add-multiple *)
(* command of src/bin/cli.js).                                              *)
(*                                                                          *)
(* A JavaScript string is a sequence of one-character strings.  Numbers     *)
(* that the code keeps as doubles are kept in units of 1/Unit where a       *)
(* fraction matters: the scale factor of calculateScaledFontSize.           *)
(***************************************************************************)
EXTENDS Integers, Sequences, FiniteSets, TLC

(***************************************************************************)
(* Bounds of the model.                                                     *)
(***************************************************************************)
\* longest text enumerated for the text wrapper
MaxTextLen == 5
\* largest line budget enumerated for the text wrapper
MaxWrapLen == 4
\* most captions in one addMultipleCaptions request
MaxCaptions == 2
\* most unlinkSync calls that throw within one request
MaxUnlinkFailures == 1
\* most changes of the font file's existence while one request's filters are built
MaxFontFlips == 1
\* the small video widths 1..MaxWidthArg enumerated for calculateWrapLength
MaxWidthArg == 12
\* the small font sizes 1..MaxFontArg enumerated for calculateWrapLength
MaxFontArg == 12

(***************************************************************************)
(* JavaScript strings.                                                      *)
(***************************************************************************)
\* the line feed wrapTextToFile puts between lines
LF == "\n"

\* String.prototype.trim strips these (of the characters the model uses)
IsWhitespace(c) == c \in {" ", LF}

\* the value of a missing property (caption.text of a caption without text);
\* it is no sequence of characters, so no string equals it
Undefined == <<"undefined">>

RECURSIVE SplitAcc(_, _, _)
\* str.split(sep) continued: cur is the piece being read
SplitAcc(str, sep, cur) ==
    IF str = <<>> THEN <<cur>>
    ELSE IF Head(str) = sep
         THEN <<cur>> \o SplitAcc(Tail(str), sep, <<>>)
         ELSE SplitAcc(Tail(str), sep, Append(cur, Head(str)))

\* str.split(" "): the pieces between single separators, empty ones kept
Split(str, sep) == SplitAcc(str, sep, <<>>)

RECURSIVE TrimLeft(_)
TrimLeft(s) ==
    IF s # <<>> /\ IsWhitespace(Head(s)) THEN TrimLeft(Tail(s)) ELSE s

RECURSIVE TrimRight(_)
TrimRight(s) ==
    IF s # <<>> /\ IsWhitespace(s[Len(s)])
    THEN TrimRight(SubSeq(s, 1, Len(s) - 1))
    ELSE s

\* line.trim()
Trim(s) == TrimRight(TrimLeft(s))

(***************************************************************************)
(* wrapTextToFile (index.js 7-24): the text it writes.                      *)
(***************************************************************************)
RECURSIVE WrapLoop_DropWord(_, _, _, _)
\* the loop with the word that closes a line lost
WrapLoop_DropWord(words, maxLen, line, result) ==
    IF words = <<>> THEN result \o Trim(line)
    ELSE LET word == Head(words)
         IN  IF Len(line \o word) > maxLen
             THEN WrapLoop_DropWord(Tail(words), maxLen, <<>>,
                                    result \o Trim(line) \o <<LF>>)
             ELSE WrapLoop_DropWord(Tail(words), maxLen,
                                    line \o word \o <<" ">>, result)

RECURSIVE WrapLoop_CloseAfter(_, _, _, _)
\* the loop with the length test made after the word is appended: the word
\* that overflows the line stays on it
WrapLoop_CloseAfter(words, maxLen, line, result) ==
    IF words = <<>> THEN result \o Trim(line)
    ELSE LET word   == Head(words)
             line1  == line \o word \o <<" ">>
             closes == Len(line \o word) > maxLen
         IN  IF closes
             THEN WrapLoop_CloseAfter(Tail(words), maxLen, <<>>,
                                      result \o Trim(line1) \o <<LF>>)
             ELSE WrapLoop_CloseAfter(Tail(words), maxLen, line1, result)

RECURSIVE WrapLoop_SpaceForgotten(_, _, _, _)
\* the loop with the separating space left out of the length test
WrapLoop_SpaceForgotten(words, maxLen, line, result) ==
    IF words = <<>> THEN result \o Trim(line)
    ELSE LET word   == Head(words)
             closes == Len(Trim(line)) + Len(word) > maxLen
             res1   == IF closes THEN result \o Trim(line) \o <<LF>> ELSE result
             line1  == IF closes THEN <<>> ELSE line
         IN  WrapLoop_SpaceForgotten(Tail(words), maxLen, line1 \o word \o <<" ">>, res1)

RECURSIVE WrapLoop(_, _, _, _)
\* for (const word of words) { ... }  result += line.trim()
WrapLoop(words, maxLen, line, result) ==
    IF words = <<>> THEN result \o Trim(line)
    ELSE LET word   == Head(words)
             closes == Len(line \o word) > maxLen
             res1   == IF closes THEN result \o Trim(line) \o <<LF>> ELSE result
             line1  == IF closes THEN <<>> ELSE line
         IN  WrapLoop(Tail(words), maxLen, line1 \o word \o <<" ">>, res1)

\* the content wrapTextToFile(str, maxLen) writes to its temp file
WrapText(str, maxLen) == WrapLoop(Split(str, " "), maxLen, <<>>, <<>>)

(***************************************************************************)
(* calculateTextHeight (index.js 164-182).                                  *)
(***************************************************************************)
RECURSIVE CountLoop(_, _, _, _)
\* for (const word of words) { ... } of calculateTextHeight
CountLoop(words, wrapLen, line, lineCount) ==
    IF words = <<>> THEN lineCount
    ELSE LET word == Head(words)
         IN  IF Len(line \o word) > wrapLen
             THEN CountLoop(Tail(words), wrapLen, word \o <<" ">>, lineCount + 1)
             ELSE CountLoop(Tail(words), wrapLen, line \o word \o <<" ">>, lineCount)

\* the lineCount calculateTextHeight reaches for (text, wrapLen)
LineCount(text, wrapLen) == CountLoop(Split(text, " "), wrapLen, <<>>, 1)

Max(a, b) == IF a >= b THEN a ELSE b
Min(a, b) == IF a <= b THEN a ELSE b

\* the height with the lines counted from 0 and the spacing term not held
\* at 0 from below
calculateTextHeight_NoGuard(text, wrapLen, styleConfig) ==
    LET lineCount == LineCount(text, wrapLen) - 1
    IN  styleConfig.fontsize * lineCount
        + styleConfig.line_spacing * (lineCount - 1)

\* styleConfig.fontsize * lineCount + styleConfig.line_spacing * max(0, lineCount - 1)
calculateTextHeight(text, wrapLen, styleConfig) ==
    LET lineCount == LineCount(text, wrapLen)
    IN  styleConfig.fontsize * lineCount
        + styleConfig.line_spacing * Max(0, lineCount - 1)

(***************************************************************************)
(* Layout arithmetic (index.js 53-88).  The scale factor is a double in     *)
(* the code; here it is kept in units of 1/Unit, each intermediate result   *)
(* rounded down.  For the geometries the model enumerates (Geometries,      *)
(* ProbeGeometries) the scaled integers below are the ones the doubles give.*)
(***************************************************************************)
Unit == 10 ^ 5

RECURSIVE ISqrtIn(_, _, _)
\* the largest r in lo..hi with r * r <= n
ISqrtIn(n, lo, hi) ==
    IF lo >= hi THEN lo
    ELSE LET mid == (lo + hi + 1) \div 2
         IN  IF mid * mid <= n THEN ISqrtIn(n, mid, hi) ELSE ISqrtIn(n, lo, mid - 1)

\* floor(Math.sqrt(n)) for 0 <= n < 2^31
ISqrt(n) == ISqrtIn(n, 0, Min(n, 46340))

\* Math.round(num / den) for num >= 0, den > 0: halves round up
RoundDiv(num, den) == (2 * num + den) \div (2 * den)

\* minDimension < 700
SmallVideoLimit == 700
\* Math.max(0.3, Math.min(scaleFactor, 3.0)), in 1/Unit
MinScale == 30000
MaxScale == 300000

\* the scale factor with the lower limit of line 79 lost
calculateScaledFontSize_NoClamp(videoWidth, videoHeight, baseStyle) ==
    IF baseStyle = "tiktok" THEN Unit
    ELSE LET sqrtArea == (ISqrt(64 * videoWidth * videoHeight) * 3125) \div 360
             minDimension == Min(videoWidth, videoHeight)
             scaleFactor ==
                 IF minDimension < SmallVideoLimit
                 THEN LET root == ISqrt((minDimension * 1000000) \div 7)
                          smallScaleFactor == (minDimension * root) \div SmallVideoLimit
                      IN  (sqrtArea * smallScaleFactor) \div 10000
                 ELSE sqrtArea
         IN  Min(scaleFactor, MaxScale)

\* the scale factor with the small-video factor applied to every geometry
calculateScaledFontSize_PenaltyAlways(videoWidth, videoHeight, baseStyle) ==
    IF baseStyle = "tiktok" THEN Unit
    ELSE LET sqrtArea == (ISqrt(64 * videoWidth * videoHeight) * 3125) \div 360
             minDimension == Min(videoWidth, videoHeight)
             root == ISqrt((minDimension * 1000000) \div 7)
             smallScaleFactor == (minDimension * root) \div SmallVideoLimit
             scaleFactor == (sqrtArea * smallScaleFactor) \div 10000
         IN  Max(MinScale, Min(scaleFactor, MaxScale))

\* calculateScaledFontSize(videoWidth, videoHeight, baseStyle), in 1/Unit.
\* referenceArea = 1920 * 1080 = 1440^2, so
\* sqrt(areaRatio) = sqrt(w*h) / 1440 = ISqrt(64*w*h) / (8 * 1440);
\* (m/700)^1.5 = (m/700) * sqrt(m/700), the root kept in 1/10000.
calculateScaledFontSize(videoWidth, videoHeight, baseStyle) ==
    IF baseStyle = "tiktok" THEN Unit
    ELSE LET sqrtArea == (ISqrt(64 * videoWidth * videoHeight) * 3125) \div 360
             minDimension == Min(videoWidth, videoHeight)
             scaleFactor ==
                 IF minDimension < SmallVideoLimit
                 THEN LET root == ISqrt((minDimension * 1000000) \div 7)
                          smallScaleFactor == (minDimension * root) \div SmallVideoLimit
                      IN  (sqrtArea * smallScaleFactor) \div 10000
                 ELSE sqrtArea
         IN  Max(MinScale, Min(scaleFactor, MaxScale))

\* Math.max(15, Math.min(maxCharsPerLine, 80))
MinWrapLength == 15
MaxWrapLength == 80
\* padding = 40, the default every caller in index.js relies on
DefaultPadding == 40

\* the wrap length with the lower clamp of line 87 lost
calculateWrapLength_NoFloor(videoWidth, fontSize, padding) ==
    Min((5 * (videoWidth - padding * 2)) \div (3 * fontSize), MaxWrapLength)

\* calculateWrapLength(videoWidth, fontSize, padding):
\* floor(usableWidth / (fontSize * 0.6)) = floor(5 * usableWidth / (3 * fontSize))
calculateWrapLength(videoWidth, fontSize, padding) ==
    LET usableWidth == videoWidth - padding * 2
        maxCharsPerLine == (5 * usableWidth) \div (3 * fontSize)
    IN  Max(MinWrapLength, Min(maxCharsPerLine, MaxWrapLength))

(***************************************************************************)
(* State.                                                                   *)
(***************************************************************************)
VARIABLES
    pc,               \* where the request is: idle, probing, rendering, resolved, rejected, cliFailed
    req,              \* the options object the request was called with
    locals,           \* the request's local variables once the probe has answered
    files,            \* the temp text files that exist: name -> content
    created,          \* every temp file name tmp.fileSync has handed out
    unlinkAttempted,  \* every temp file name fs.unlinkSync was called on
    renderRuns,       \* how many times command.run() was called
    result,           \* what the request's promise settled with
    call,             \* the pure function call under examination
    ret,              \* what that call gave
    probeCalls,       \* how many times getVideoInfo was called for the request
    baseStyles,       \* this.baseStyles, the style catalog of the CaptionIt object
    other             \* a second request on the same object, while it is not the one running

vars == << pc, req, locals, files, created, unlinkAttempted, renderRuns, result,
           call, ret, probeCalls, baseStyles, other >>

requestVars ==
    << pc, req, locals, files, created, unlinkAttempted, renderRuns, result,
       probeCalls, baseStyles, other >>

(***************************************************************************)
(* The style catalog and getScaledStyle (index.js 91-161).  A property the  *)
(* code leaves undefined is a field the record does not have.  The          *)
(* constructor assigns the literal below to this.baseStyles, the variable   *)
(* baseStyles; Object.keys lists its names in the order of the literal.     *)
(***************************************************************************)
\* the object literal the constructor assigns to this.baseStyles
BaseStylesOfConstructor ==
    [ gif |->
        [ baseFontsize |-> 124, fontcolor |-> "white", borderw |-> 6,
          bordercolor |-> "black@0.95", line_spacing |-> 30,
          textPadding |-> 40, backgroundColor |-> "black" ],
      tiktok |->
        [ baseFontsize |-> 48, fontcolor |-> "white", borderw |-> 0,
          bordercolor |-> "black", box |-> 1, boxcolor |-> "black@0.6",
          boxborderw |-> 10, x |-> "(w-text_w)/2", y |-> "(h-text_h)/2",
          line_spacing |-> 10 ] ]

\* this.baseStyles[styleName] is defined
IsStyle(styleName) == styleName \in DOMAIN baseStyles

\* Math.round(base * scaleFactor), scaleFactor in 1/Unit
Scaled(base, scaleFactor) == RoundDiv(base * scaleFactor, Unit)

\* the object literal of lines 135-158, for a catalog style
ScaledStyleOf(styleName, videoWidth, videoHeight) ==
    LET baseStyle == baseStyles[styleName]
        scaleFactor == calculateScaledFontSize(videoWidth, videoHeight, styleName)
        always ==
            [ fontsize |-> Scaled(baseStyle.baseFontsize, scaleFactor),
              borderw |-> Max(1, RoundDiv(baseStyle.borderw * scaleFactor * 7, 10 * Unit)),
              line_spacing |-> Scaled(baseStyle.line_spacing, scaleFactor) ]
        padding ==
            IF "textPadding" \in DOMAIN baseStyle /\ baseStyle.textPadding # 0
            THEN [ textPadding |-> Scaled(baseStyle.textPadding, scaleFactor) ]
            ELSE << >>
        boxborder ==
            IF "boxborderw" \in DOMAIN baseStyle /\ baseStyle.boxborderw # 0
            THEN [ boxborderw |->
                     Max(2, RoundDiv(baseStyle.boxborderw * scaleFactor * 8, 10 * Unit)) ]
            ELSE << >>
    IN  always @@ padding @@ boxborder @@ baseStyle

\* a call's outcome: the value it returns or the error it throws
Return(v) == [ kind |-> "return", value |-> v ]
Throw(e) == [ kind |-> "throw", error |-> e ]

\* getScaledStyle(styleName, videoWidth, videoHeight)
getScaledStyle(styleName, videoWidth, videoHeight) ==
    IF ~IsStyle(styleName)
    THEN Throw("UnknownStyle")
    ELSE Return(ScaledStyleOf(styleName, videoWidth, videoHeight))

\* getStyleConfig(styleName, videoWidth = 1920, videoHeight = 1080)
getStyleConfig(styleName, videoWidth, videoHeight) ==
    getScaledStyle(styleName, videoWidth, videoHeight)

\* Object.keys(this.baseStyles): the names in the order the constructor's
\* literal gives them
KeyOrder == << "gif", "tiktok" >>

\* getAvailableStyles()
getAvailableStyles ==
    Return(SelectSeq(KeyOrder, LAMBDA name : name \in DOMAIN baseStyles))

\* the value null
Null == "null"

\* getBaseStyleConfig(styleName): this.baseStyles[styleName] || null
getBaseStyleConfig(styleName) ==
    IF IsStyle(styleName) THEN Return(baseStyles[styleName]) ELSE Return(Null)

(***************************************************************************)
(* Inputs of the requests.                                                  *)
(***************************************************************************)
\* "aaaaaaaa bbbbbbbb": one line of 24 characters, two lines of 15
TextLong ==
    << "a", "a", "a", "a", "a", "a", "a", "a", " ",
       "b", "b", "b", "b", "b", "b", "b", "b" >>

\* caption texts: missing, empty, and one that wraps on a narrow video
Texts == { Undefined, << >>, TextLong }

\* (startTime, endTime): two windows that abut and an empty one
Windows == { <<0, 1>>, <<1, 2>>, <<1, 1>> }

CaptionPool ==
    { [ text |-> t, startTime |-> w[1], endTime |-> w[2] ] : t \in Texts, w \in Windows }

CaptionLists == UNION { [ 1..n -> CaptionPool ] : n \in 1..MaxCaptions }

\* the style names callers pass: the catalog's and one that is not in it
StyleArgs == { "gif", "tiktok", "neon" }

\* fontfile: not given, or the path of a font
NoFontfile == "undefined"
FontfileArgs == { NoFontfile, "font.ttf" }

\* what ffprobe reports for the input: { width, height }
ProbeGeometries == { [ width |-> 1920, height |-> 1080 ], [ width |-> 320, height |-> 240 ] }

\* the answers of fs.existsSync(fontfile) to n successive calls; the font
\* file appears or disappears at most MaxFontFlips times in between
Flips(seen) == Cardinality({ i \in 1..(Len(seen) - 1) : seen[i] # seen[i + 1] })
FontAnswers(n) == { seen \in [ 1..n -> BOOLEAN ] : Flips(seen) <= MaxFontFlips }

\* fontfile && fs.existsSync(fontfile), the call made only when fontfile is given
FontChoices(fontfile, n) ==
    IF fontfile = NoFontfile THEN { [ i \in 1..n |-> FALSE ] } ELSE FontAnswers(n)

(***************************************************************************)
(* The temporary text store (index.js 21-23, tmp and fs).                   *)
(***************************************************************************)
\* how one wrapTextToFile call can go wrong in the store
StoreFaults == { "TmpError", "WriteError" }

\* a temp store that hands out one and the same name every time
FreshName_Fixed(used) == 1

\* tmp.fileSync hands out a name no earlier file had
FreshName(used) == Cardinality(used) + 1

\* wrapTextToFile(str, maxLen) on the store, used being the names handed out
\* so far: str.split throws on a missing text, tmp.fileSync may throw (no
\* file), and fs.writeFileSync may throw (the file exists, empty)
wrapTextToFile(str, maxLen, store, used, fault) ==
    LET name == FreshName(used)
    IN  IF str = Undefined
        THEN [ error |-> "TypeError", store |-> store, used |-> used ]
        ELSE IF fault = "TmpError"
        THEN [ error |-> "TmpError", store |-> store, used |-> used ]
        ELSE IF fault = "WriteError"
        THEN [ error |-> "WriteError", store |-> (name :> << >>) @@ store,
               used |-> used \cup {name} ]
        ELSE [ error |-> "ok", store |-> (name :> WrapText(str, maxLen)) @@ store,
               used |-> used \cup {name}, name |-> name ]

RECURSIVE MapWrapFrom(_, _, _, _, _, _)
\* captions.map((caption) => ({...caption, file: wrapTextToFile(caption.text, wrapLen)}))
\* from caption i on; the store fault, if any, strikes at caption failAt.
\* acc: the store and the names handed out so far, the files of the captions
\* done, and the error that ended the map
MapWrapFrom(captions, maxLen, i, failAt, fault, acc) ==
    IF i > Len(captions) THEN acc
    ELSE LET one == wrapTextToFile(captions[i].text, maxLen, acc.store, acc.used,
                                   IF i = failAt THEN fault ELSE "none")
         IN  IF one.error # "ok"
             THEN [ error |-> one.error, store |-> one.store, used |-> one.used,
                    names |-> acc.names ]
             ELSE MapWrapFrom(captions, maxLen, i + 1, failAt, fault,
                      [ error |-> "ok", store |-> one.store, used |-> one.used,
                        names |-> Append(acc.names, one.name) ])

MapWrap(captions, maxLen, failAt, fault, store, used) ==
    MapWrapFrom(captions, maxLen, 1, failAt, fault,
                [ error |-> "ok", store |-> store, used |-> used, names |-> << >> ])

(***************************************************************************)
(* Filter primitives (index.js 269-298, 372-393, 538-567, 643-671).  A      *)
(* filter string is the record of its name and its key=value parameters; a  *)
(* parameter the code does not append is a field the record does not have.  *)
(***************************************************************************)
\* `pad=iw:ih+${textAreaHeight}:0:${textAreaHeight}:color=${backgroundColor}`
PadFilter(textAreaHeight, styleConfig) ==
    [ filter |-> "pad", width |-> "iw", addHeight |-> textAreaHeight,
      x |-> 0, y |-> textAreaHeight, color |-> styleConfig.backgroundColor ]

\* `between(t,${caption.startTime},${caption.endTime})`
EnableCondition(caption) ==
    [ fn |-> "between", min |-> caption.startTime, max |-> caption.endTime ]

\* (fontfile && fs.existsSync(fontfile)) ? `:fontfile='${fontfile}'` : ""
FontPart(fontfile, exists) ==
    IF fontfile # NoFontfile /\ exists THEN [ fontfile |-> fontfile ] ELSE << >>

\* the drawtext of the gif style; enable is << >> for a single caption
GifDrawtext(file, styleConfig, textAreaHeight, enable, fontfile, exists) ==
    [ filter |-> "drawtext", textfile |-> file,
      fontsize |-> styleConfig.fontsize, fontcolor |-> styleConfig.fontcolor,
      x |-> "(w-text_w)/2", y |-> << "(", textAreaHeight, "-text_h)/2" >>,
      line_spacing |-> styleConfig.line_spacing,
      borderw |-> styleConfig.borderw, bordercolor |-> styleConfig.bordercolor ]
    @@ enable @@ FontPart(fontfile, exists)

\* the tiktok drawtext with the enable parameter left out
TiktokDrawtext_NoEnable(file, styleConfig, enable, fontfile, exists) ==
    [ filter |-> "drawtext", textfile |-> file,
      fontsize |-> styleConfig.fontsize, fontcolor |-> styleConfig.fontcolor,
      x |-> styleConfig.x, y |-> styleConfig.y ]
    @@ (IF "box" \in DOMAIN styleConfig /\ styleConfig.box # 0
        THEN [ box |-> 1, boxcolor |-> styleConfig.boxcolor,
               boxborderw |-> styleConfig.boxborderw ]
        ELSE << >>)
    @@ (IF "line_spacing" \in DOMAIN styleConfig
        THEN [ line_spacing |-> styleConfig.line_spacing ]
        ELSE << >>)
    @@ (IF styleConfig.borderw > 0
        THEN [ borderw |-> styleConfig.borderw, bordercolor |-> styleConfig.bordercolor ]
        ELSE << >>)
    @@ FontPart(fontfile, exists)

\* the drawtext of the tiktok style; enable is << >> for a single caption
TiktokDrawtext(file, styleConfig, enable, fontfile, exists) ==
    [ filter |-> "drawtext", textfile |-> file,
      fontsize |-> styleConfig.fontsize, fontcolor |-> styleConfig.fontcolor,
      x |-> styleConfig.x, y |-> styleConfig.y ]
    @@ enable
    @@ (IF "box" \in DOMAIN styleConfig /\ styleConfig.box # 0
        THEN [ box |-> 1, boxcolor |-> styleConfig.boxcolor,
               boxborderw |-> styleConfig.boxborderw ]
        ELSE << >>)
    @@ (IF "line_spacing" \in DOMAIN styleConfig
        THEN [ line_spacing |-> styleConfig.line_spacing ]
        ELSE << >>)
    @@ (IF styleConfig.borderw > 0
        THEN [ borderw |-> styleConfig.borderw, bordercolor |-> styleConfig.bordercolor ]
        ELSE << >>)
    @@ FontPart(fontfile, exists)

\* the height of the first caption taken for the maximum
MaxOf_First(heights) == heights[1]

\* Math.max(...heights)
RECURSIVE MaxOf(_)
MaxOf(heights) ==
    IF Len(heights) = 1 THEN heights[1] ELSE Max(heights[1], MaxOf(Tail(heights)))

(***************************************************************************)
(* The request: entry (index.js 184-206, 451-471; cli.js 58-91).            *)
(***************************************************************************)
NoLocals == [ captionFiles |-> << >>, videoFilters |-> << >> ]

\* the checks with the style check left out
Validate_NoStyleCheck(options) ==
    IF ~options.inputExists THEN "InputNotFound" ELSE "ok"

\* the checks before the probe: fs.existsSync(inputPath), this.baseStyles[style]
Validate(options) ==
    IF ~options.inputExists THEN "InputNotFound"
    ELSE IF ~IsStyle(options.style) THEN "UnknownStyle"
    ELSE "ok"

\* the method up to `await getVideoInfo(inputPath)`
Enter(options) ==
    /\ req' = options
    /\ IF Validate(options) = "ok"
       THEN pc' = "probing" /\ result' = result /\ probeCalls' = probeCalls + 1
       ELSE pc' = "rejected" /\ result' = Validate(options) /\ probeCalls' = probeCalls
    /\ UNCHANGED << locals, files, created, unlinkAttempted, renderRuns, call, ret,
                    baseStyles, other >>

\* addCaption(options); duration 0 stands for a duration not given
AddCaption ==
    /\ pc = "idle"
    /\ \E inputExists \in BOOLEAN, style \in StyleArgs, text \in Texts,
          startTime \in {0, 1}, duration \in {0, 2}, fontfile \in FontfileArgs :
          Enter([ op |-> "addCaption", inputExists |-> inputExists, style |-> style,
                  text |-> text, startTime |-> startTime, duration |-> duration,
                  fontfile |-> fontfile ])

\* addMultipleCaptions(options)
AddMultipleCaptions ==
    /\ pc = "idle"
    /\ \E inputExists \in BOOLEAN, style \in StyleArgs, captions \in CaptionLists,
          fontfile \in FontfileArgs :
          Enter([ op |-> "addMultipleCaptions", inputExists |-> inputExists,
                  style |-> style, captions |-> captions, fontfile |-> fontfile ])

\* !caption.text: a missing or an empty text (startTime and endTime are
\* numbers in every caption the model enumerates)
CliRejects(caption) == caption.text = Undefined \/ caption.text = << >>

\* the add-multiple command: the captions read from the JSON file are
\* checked, then handed to addMultipleCaptions
CliAddMultiple ==
    /\ pc = "idle"
    /\ \E inputExists \in BOOLEAN, style \in StyleArgs, captionsData \in CaptionLists,
          fontfile \in FontfileArgs :
          IF \E i \in DOMAIN captionsData : CliRejects(captionsData[i])
          THEN /\ pc' = "cliFailed"
               /\ result' = "CaptionFormat"
               /\ req' = [ op |-> "add-multiple", inputExists |-> inputExists,
                           style |-> style, captions |-> captionsData,
                           fontfile |-> fontfile ]
               /\ UNCHANGED << locals, files, created, unlinkAttempted, renderRuns,
                               call, ret, probeCalls, baseStyles, other >>
          ELSE Enter([ op |-> "addMultipleCaptions", inputExists |-> inputExists,
                       style |-> style, captions |-> captionsData,
                       fontfile |-> fontfile ])

(***************************************************************************)
(* The probe (index.js 27-50).                                              *)
(***************************************************************************)
\* getVideoInfo rejects: ffprobe's error, or no video stream in the metadata
ProbeFails ==
    /\ pc = "probing"
    /\ \E e \in { "ProbeError", "NoVideoStream" } :
          /\ pc' = "rejected"
          /\ result' = e
    /\ UNCHANGED << req, locals, files, created, unlinkAttempted, renderRuns,
                    call, ret, probeCalls, baseStyles, other >>

\* lines 208-219 and 473-484: the scaled style and the wrap length
Layout(videoInfo) ==
    LET styleConfig == ScaledStyleOf(req.style, videoInfo.width, videoInfo.height)
    IN  [ videoInfo |-> videoInfo, styleConfig |-> styleConfig,
          wrapLen |-> calculateWrapLength(videoInfo.width, styleConfig.fontsize,
                                          DefaultPadding) ]

\* an exception leaves the async method: the promise rejects with it
Fail(error, made, layout) ==
    /\ pc' = "rejected"
    /\ result' = error
    /\ files' = made.store
    /\ created' = made.used
    /\ locals' = layout @@ NoLocals
    /\ UNCHANGED << req, unlinkAttempted, renderRuns,
                    call, ret, probeCalls, baseStyles, other >>

\* command.seekInput(startTime) and command.duration(duration), when called
CommandOptions ==
    (IF req.startTime > 0 THEN [ seekInput |-> req.startTime ] ELSE << >>)
    @@ (IF req.duration # 0 THEN [ duration |-> req.duration ] ELSE << >>)

\* ffmpeg(inputPath).videoFilters(videoFilters).output(outputPath) ... .run()
Run(made, frame) ==
    /\ pc' = "rendering"
    /\ files' = made.store
    /\ created' = made.used
    /\ locals' = frame
    /\ renderRuns' = renderRuns + 1
    /\ UNCHANGED << req, unlinkAttempted, result,
                    call, ret, probeCalls, baseStyles, other >>

(***************************************************************************)
(* The request from the probe's answer to command.run(): the rest of        *)
(* addCaption / addMultipleCaptions and the style's method, which run       *)
(* without a break once getVideoInfo resolves.                              *)
(***************************************************************************)
\* addCaption lines 208-240, then addGifStyleCaption lines 269-356
addGifStyleCaption ==
    /\ pc = "probing" /\ req.op = "addCaption" /\ req.style = "gif"
    /\ \E videoInfo \in ProbeGeometries, fault \in StoreFaults \cup {"none"},
          seen \in FontChoices(req.fontfile, 1) :
          LET layout == Layout(videoInfo)
              made   == wrapTextToFile(req.text, layout.wrapLen, files, created, fault)
          IN  IF made.error # "ok"
              THEN Fail(made.error, made, layout)
              ELSE LET styleConfig    == layout.styleConfig
                       textHeight     == calculateTextHeight(req.text, layout.wrapLen,
                                                             styleConfig)
                       textAreaHeight == textHeight + styleConfig.textPadding * 2
                       videoFilters   ==
                           << PadFilter(textAreaHeight, styleConfig),
                              GifDrawtext(made.name, styleConfig, textAreaHeight,
                                          << >>, req.fontfile, seen[1]) >>
                   IN  Run(made, [ captionFiles |-> << made.name >>,
                                   videoFilters |-> videoFilters,
                                   textAreaHeight |-> textAreaHeight,
                                   options |-> CommandOptions ] @@ layout)

\* addCaption lines 208-253, then addTiktokStyleCaption lines 372-447
addTiktokStyleCaption ==
    /\ pc = "probing" /\ req.op = "addCaption" /\ req.style = "tiktok"
    /\ \E videoInfo \in ProbeGeometries, fault \in StoreFaults \cup {"none"},
          seen \in FontChoices(req.fontfile, 1) :
          LET layout == Layout(videoInfo)
              made   == wrapTextToFile(req.text, layout.wrapLen, files, created, fault)
          IN  IF made.error # "ok"
              THEN Fail(made.error, made, layout)
              ELSE LET drawTextFilter ==
                           TiktokDrawtext(made.name, layout.styleConfig, << >>,
                                          req.fontfile, seen[1])
                   IN  Run(made, [ captionFiles |-> << made.name >>,
                                   videoFilters |-> << drawTextFilter >>,
                                   options |-> CommandOptions ] @@ layout)

\* the method with the pad pushed after the drawtext filters
addMultipleGifStyleCaptions_PadLast ==
    /\ pc = "probing" /\ req.op = "addMultipleCaptions" /\ req.style = "gif"
    /\ \E videoInfo \in ProbeGeometries, failAt \in 0..Len(req.captions),
          fault \in StoreFaults, seen \in FontChoices(req.fontfile, Len(req.captions)) :
          LET layout      == Layout(videoInfo)
              styleConfig == layout.styleConfig
              captions    == req.captions
              untouched   == [ error |-> "TypeError", store |-> files, used |-> created ]
          IN  IF \E i \in DOMAIN captions : captions[i].text = Undefined
              THEN \* caption.text.split throws inside calculateTextHeight
                   Fail("TypeError", untouched, layout)
              ELSE LET maxTextHeight ==
                           MaxOf([ i \in DOMAIN captions |->
                                     calculateTextHeight(captions[i].text, layout.wrapLen,
                                                         styleConfig) ])
                       textAreaHeight == maxTextHeight + styleConfig.textPadding * 2
                       made == MapWrap(captions, layout.wrapLen, failAt, fault,
                                       files, created)
                       videoFilters ==
                           [ i \in DOMAIN captions |->
                               GifDrawtext(made.names[i], styleConfig, textAreaHeight,
                                           [ enable |-> EnableCondition(captions[i]) ],
                                           req.fontfile, seen[i]) ]
                           \o << PadFilter(textAreaHeight, styleConfig) >>
                   IN  IF made.error # "ok"
                       THEN Fail(made.error, made, layout)
                       ELSE Run(made, [ captionFiles |-> made.names,
                                        videoFilters |-> videoFilters,
                                        textAreaHeight |-> textAreaHeight ] @@ layout)

\* addMultipleCaptions lines 473-501, then addMultipleGifStyleCaptions lines 524-624
addMultipleGifStyleCaptions ==
    /\ pc = "probing" /\ req.op = "addMultipleCaptions" /\ req.style = "gif"
    /\ \E videoInfo \in ProbeGeometries, failAt \in 0..Len(req.captions),
          fault \in StoreFaults, seen \in FontChoices(req.fontfile, Len(req.captions)) :
          LET layout      == Layout(videoInfo)
              styleConfig == layout.styleConfig
              captions    == req.captions
              untouched   == [ error |-> "TypeError", store |-> files, used |-> created ]
          IN  IF \E i \in DOMAIN captions : captions[i].text = Undefined
              THEN \* caption.text.split throws inside calculateTextHeight
                   Fail("TypeError", untouched, layout)
              ELSE LET maxTextHeight ==
                           MaxOf([ i \in DOMAIN captions |->
                                     calculateTextHeight(captions[i].text, layout.wrapLen,
                                                         styleConfig) ])
                       textAreaHeight == maxTextHeight + styleConfig.textPadding * 2
                       made == MapWrap(captions, layout.wrapLen, failAt, fault,
                                       files, created)
                       videoFilters ==
                           << PadFilter(textAreaHeight, styleConfig) >>
                           \o [ i \in DOMAIN captions |->
                                  GifDrawtext(made.names[i], styleConfig, textAreaHeight,
                                              [ enable |-> EnableCondition(captions[i]) ],
                                              req.fontfile, seen[i]) ]
                   IN  IF made.error # "ok"
                       THEN Fail(made.error, made, layout)
                       ELSE Run(made, [ captionFiles |-> made.names,
                                        videoFilters |-> videoFilters,
                                        textAreaHeight |-> textAreaHeight ] @@ layout)

\* addMultipleCaptions lines 473-511, then addMultipleTiktokStyleCaptions lines 637-727
addMultipleTiktokStyleCaptions ==
    /\ pc = "probing" /\ req.op = "addMultipleCaptions" /\ req.style = "tiktok"
    /\ \E videoInfo \in ProbeGeometries, failAt \in 0..Len(req.captions),
          fault \in StoreFaults, seen \in FontChoices(req.fontfile, Len(req.captions)) :
          LET layout   == Layout(videoInfo)
              captions == req.captions
              made     == MapWrap(captions, layout.wrapLen, failAt, fault, files, created)
              drawTextFilters ==
                  [ i \in DOMAIN captions |->
                      TiktokDrawtext(made.names[i], layout.styleConfig,
                                     [ enable |-> EnableCondition(captions[i]) ],
                                     req.fontfile, seen[i]) ]
          IN  IF made.error # "ok"
              THEN Fail(made.error, made, layout)
              ELSE Run(made, [ captionFiles |-> made.names,
                               videoFilters |-> drawTextFilters ] @@ layout)

(***************************************************************************)
(* The renderer's terminal events (index.js 332-355, 423-446, 594-623,      *)
(* 697-726): each handler unlinks every caption file inside try/catch,      *)
(* then settles the promise.                                                *)
(***************************************************************************)
\* the elements of a sequence
Range(seq) == { seq[i] : i \in DOMAIN seq }

\* the sets of files whose fs.unlinkSync may throw in one handler run
UnlinkFailures(names) ==
    { failing \in SUBSET names : Cardinality(failing) <= MaxUnlinkFailures }

\* the loop without its try/catch: the first unlink that throws ends it, so
\* no other file is reached when the throwing one comes first
UnlinkEach_StopAtThrow(names, failing) ==
    IF failing = {}
    THEN /\ files' = [ n \in (DOMAIN files) \ names |-> files[n] ]
         /\ unlinkAttempted' = unlinkAttempted \cup names
    ELSE /\ files' = files
         /\ unlinkAttempted' = unlinkAttempted \cup failing

\* try { fs.unlinkSync(file) } catch (e) { console.warn(...) } for each file
UnlinkEach(names, failing) ==
    /\ files' = [ n \in (DOMAIN files) \ (names \ failing) |-> files[n] ]
    /\ unlinkAttempted' = unlinkAttempted \cup names

\* an end handler that unlinks every temp file made so far, not only the
\* caption files of its own request
OnEnd_SweepsAll ==
    /\ pc = "rendering"
    /\ files' = [ n \in (DOMAIN files) \ created |-> files[n] ]
    /\ unlinkAttempted' = unlinkAttempted \cup created
    /\ pc' = "resolved"
    /\ result' = "outputPath"
    /\ UNCHANGED << req, locals, created, renderRuns,
                    call, ret, probeCalls, baseStyles, other >>

\* .on("end", ...)
OnEnd ==
    /\ pc = "rendering"
    /\ \E failing \in UnlinkFailures(Range(locals.captionFiles)) :
          UnlinkEach(Range(locals.captionFiles), failing)
    /\ pc' = "resolved"
    /\ result' = "outputPath"
    /\ UNCHANGED << req, locals, created, renderRuns,
                    call, ret, probeCalls, baseStyles, other >>

\* an error handler that settles the promise and leaves the files alone
OnError_NoCleanup ==
    /\ pc = "rendering"
    /\ pc' = "rejected"
    /\ result' = "RenderError"
    /\ UNCHANGED << req, locals, files, created, unlinkAttempted, renderRuns,
                    call, ret, probeCalls, baseStyles, other >>

\* an error handler that runs the command once more instead of rejecting
OnError_Retry ==
    /\ pc = "rendering"
    /\ IF renderRuns < 2
       THEN /\ renderRuns' = renderRuns + 1
            /\ UNCHANGED << pc, result, files, unlinkAttempted >>
       ELSE /\ \E failing \in UnlinkFailures(Range(locals.captionFiles)) :
                  UnlinkEach(Range(locals.captionFiles), failing)
            /\ pc' = "rejected"
            /\ result' = "RenderError"
            /\ renderRuns' = renderRuns
    /\ UNCHANGED << req, locals, created, call, ret, probeCalls, baseStyles, other >>

\* .on("error", ...)
OnError ==
    /\ pc = "rendering"
    /\ \E failing \in UnlinkFailures(Range(locals.captionFiles)) :
          UnlinkEach(Range(locals.captionFiles), failing)
    /\ pc' = "rejected"
    /\ result' = "RenderError"
    /\ UNCHANGED << req, locals, created, renderRuns,
                    call, ret, probeCalls, baseStyles, other >>

(***************************************************************************)
(* Specification of the requests.                                           *)
(***************************************************************************)
\* a request of the object that has not been made yet
Parked ==
    [ pc |-> "idle", req |-> [ op |-> "none" ], locals |-> NoLocals,
      unlinkAttempted |-> {}, renderRuns |-> 0, result |-> "pending",
      probeCalls |-> 0 ]

NoCall == [ fn |-> "none" ]
NoRet == [ kind |-> "none" ]

Init ==
    /\ pc = "idle"
    /\ req = [ op |-> "none" ]
    /\ locals = NoLocals
    /\ files = << >>
    /\ created = {}
    /\ unlinkAttempted = {}
    /\ renderRuns = 0
    /\ result = "pending"
    /\ probeCalls = 0
    /\ baseStyles = BaseStylesOfConstructor
    /\ other = Parked
    /\ call = NoCall
    /\ ret = NoRet

Next ==
    \/ AddCaption
    \/ AddMultipleCaptions
    \/ CliAddMultiple
    \/ addGifStyleCaption
    \/ addTiktokStyleCaption
    \/ addMultipleGifStyleCaptions
    \/ addMultipleTiktokStyleCaptions
    \/ ProbeFails
    \/ OnEnd
    \/ OnError

Spec == Init /\ [][Next]_vars

(***************************************************************************)
(* Specification of the text wrapper: wrapTextToFile's text and             *)
(* calculateTextHeight's line count, each computed once for one             *)
(* (text, maxLen) drawn from the texts of at most MaxTextLen characters.    *)
(***************************************************************************)
\* two letters, the space the code splits on, and a line feed
Alphabet == { "a", "b", " ", LF }

TextsUpTo(n) == UNION { [ 1..k -> Alphabet ] : k \in 0..n }

\* not computed yet
Unset == << "unset" >>

InitWrap ==
    /\ pc = "idle"
    /\ req = [ op |-> "none" ]
    /\ locals = NoLocals
    /\ files = << >>
    /\ created = {}
    /\ unlinkAttempted = {}
    /\ renderRuns = 0
    /\ result = "pending"
    /\ probeCalls = 0
    /\ baseStyles = BaseStylesOfConstructor
    /\ other = Parked
    /\ call \in { [ fn |-> "wrap", text |-> t, maxLen |-> n ] :
                    t \in TextsUpTo(MaxTextLen), n \in 1..MaxWrapLen }
    /\ ret = [ written |-> Unset, lineCount |-> 0 ]

\* wrapTextToFile(text, maxLen) writes its file
WrapCall ==
    /\ ret.written = Unset
    /\ ret' = [ ret EXCEPT !.written = WrapText(call.text, call.maxLen) ]
    /\ UNCHANGED << requestVars, call >>

\* calculateTextHeight(text, maxLen, styleConfig) counts the lines
CountCall ==
    /\ ret.lineCount = 0
    /\ ret' = [ ret EXCEPT !.lineCount = LineCount(call.text, call.maxLen) ]
    /\ UNCHANGED << requestVars, call >>

NextWrap == WrapCall \/ CountCall

SpecWrap == InitWrap /\ [][NextWrap]_vars

(***************************************************************************)
(* Specification of the layout functions: one call of calculateWrapLength,  *)
(* getScaledStyle or getStyleConfig with arguments drawn from the sets      *)
(* below.                                                                   *)
(***************************************************************************)
\* video widths: the small ones, those around twice the default padding, and
\* common frame widths
WidthArgs == (1..MaxWidthArg) \cup { 79, 80, 81, 320, 640, 1920, 3840, 7680 }

\* font sizes: the small ones and the sizes getScaledStyle yields
FontSizeArgs == (1..MaxFontArg) \cup { 37, 48, 124, 372 }

PaddingArgs == { 0, DefaultPadding, 1000 }

\* (videoWidth, videoHeight) of getStyleConfig; 1920x1080 is its default
Geometries ==
    { <<1920, 1080>>, <<1280, 720>>, <<3840, 2160>>, <<7680, 4320>>, <<960, 540>>,
      <<1080, 1920>>, <<854, 480>>, <<640, 360>>, <<320, 240>>, <<1, 1>> }

InitLayout ==
    /\ pc = "idle"
    /\ req = [ op |-> "none" ]
    /\ locals = NoLocals
    /\ files = << >>
    /\ created = {}
    /\ unlinkAttempted = {}
    /\ renderRuns = 0
    /\ result = "pending"
    /\ probeCalls = 0
    /\ baseStyles = BaseStylesOfConstructor
    /\ other = Parked
    /\ call = NoCall
    /\ ret = NoRet

CalculateWrapLengthCall ==
    /\ call = NoCall
    /\ \E videoWidth \in WidthArgs, fontSize \in FontSizeArgs, padding \in PaddingArgs :
          /\ call' = [ fn |-> "calculateWrapLength", videoWidth |-> videoWidth,
                       fontSize |-> fontSize, padding |-> padding ]
          /\ ret' = Return(calculateWrapLength(videoWidth, fontSize, padding))
    /\ UNCHANGED requestVars

\* getScaledStyle with the scaled values written into the catalog's entry
\* instead of a copy of it
GetScaledStyleCall_WritesBase ==
    /\ call = NoCall
    /\ \E styleName \in StyleArgs, g \in Geometries :
          /\ call' = [ fn |-> "getScaledStyle", styleName |-> styleName,
                       videoWidth |-> g[1], videoHeight |-> g[2] ]
          /\ ret' = getScaledStyle(styleName, g[1], g[2])
          /\ baseStyles' =
                IF IsStyle(styleName)
                THEN [ baseStyles EXCEPT
                         ![styleName] = ScaledStyleOf(styleName, g[1], g[2]) ]
                ELSE baseStyles
    /\ UNCHANGED << pc, req, locals, files, created, unlinkAttempted, renderRuns,
                    result, probeCalls, other >>

GetScaledStyleCall ==
    /\ call = NoCall
    /\ \E styleName \in StyleArgs, g \in Geometries :
          /\ call' = [ fn |-> "getScaledStyle", styleName |-> styleName,
                       videoWidth |-> g[1], videoHeight |-> g[2] ]
          /\ ret' = getScaledStyle(styleName, g[1], g[2])
    /\ UNCHANGED requestVars

GetStyleConfigCall ==
    /\ call = NoCall
    /\ \E styleName \in StyleArgs, g \in Geometries :
          /\ call' = [ fn |-> "getStyleConfig", styleName |-> styleName,
                       videoWidth |-> g[1], videoHeight |-> g[2] ]
          /\ ret' = getStyleConfig(styleName, g[1], g[2])
    /\ UNCHANGED requestVars

NextLayout ==
    \/ CalculateWrapLengthCall
    \/ GetScaledStyleCall
    \/ GetStyleConfigCall

SpecLayout == InitLayout /\ [][NextLayout]_vars

(***************************************************************************)
(* Specification of a CaptionIt object in use: the accessors are called,    *)
(* any number of times and in any order, before, during and after a         *)
(* request.  The request is a plain one: no font file, the two-word text,   *)
(* one window; its input may be missing and its style unknown.              *)
(***************************************************************************)
\* the caption of a plain addMultipleCaptions request
PlainCaption == [ text |-> TextLong, startTime |-> 0, endTime |-> 1 ]

\* the options of a plain request
Plain(options) ==
    /\ options.fontfile = NoFontfile
    /\ options.op = "addCaption" =>
          (options.text = TextLong /\ options.startTime = 0 /\ options.duration = 0)
    /\ options.op = "addMultipleCaptions" =>
          \A i \in DOMAIN options.captions : options.captions[i] = PlainCaption

PlainAddCaption == AddCaption /\ Plain(req')

PlainAddMultipleCaptions == AddMultipleCaptions /\ Plain(req')

GetAvailableStylesCall ==
    /\ call = NoCall
    /\ call' = [ fn |-> "getAvailableStyles" ]
    /\ ret' = getAvailableStyles
    /\ UNCHANGED requestVars

GetBaseStyleConfigCall ==
    /\ call = NoCall
    /\ \E styleName \in StyleArgs :
          /\ call' = [ fn |-> "getBaseStyleConfig", styleName |-> styleName ]
          /\ ret' = getBaseStyleConfig(styleName)
    /\ UNCHANGED requestVars

\* the caller has the value of its call; the object takes the next call
Returned ==
    /\ call # NoCall
    /\ call' = NoCall
    /\ ret' = NoRet
    /\ UNCHANGED requestVars

NextCatalog ==
    \/ PlainAddCaption
    \/ PlainAddMultipleCaptions
    \/ addGifStyleCaption
    \/ addTiktokStyleCaption
    \/ addMultipleGifStyleCaptions
    \/ addMultipleTiktokStyleCaptions
    \/ ProbeFails
    \/ OnEnd
    \/ OnError
    \/ GetScaledStyleCall
    \/ GetStyleConfigCall
    \/ GetAvailableStylesCall
    \/ GetBaseStyleConfigCall
    \/ Returned

SpecCatalog == Init /\ [][NextCatalog]_vars

(***************************************************************************)
(* Specification of two requests on one CaptionIt object.  JavaScript runs  *)
(* one callback at a time to its end, so the two requests interleave at     *)
(* their two suspension points only: the await of getVideoInfo and the      *)
(* renderer's terminal event.  The request whose code runs next is the one  *)
(* in pc, req, locals, ...; the other one waits in `other`.  The temp store *)
(* (files, created) and the catalog are shared.  Both requests are plain.   *)
(***************************************************************************)
\* the request in the running position, as a record
Running ==
    [ pc |-> pc, req |-> req, locals |-> locals,
      unlinkAttempted |-> unlinkAttempted, renderRuns |-> renderRuns,
      result |-> result, probeCalls |-> probeCalls ]

\* the event loop turns to the other request: its call is made, or its
\* pending callback is the next to run
Switch ==
    /\ other # Running
    /\ pc' = other.pc
    /\ req' = other.req
    /\ locals' = other.locals
    /\ unlinkAttempted' = other.unlinkAttempted
    /\ renderRuns' = other.renderRuns
    /\ result' = other.result
    /\ probeCalls' = other.probeCalls
    /\ other' = Running
    /\ UNCHANGED << files, created, call, ret, baseStyles >>

NextPair ==
    \/ PlainAddCaption
    \/ PlainAddMultipleCaptions
    \/ addGifStyleCaption
    \/ addTiktokStyleCaption
    \/ addMultipleGifStyleCaptions
    \/ addMultipleTiktokStyleCaptions
    \/ ProbeFails
    \/ OnEnd
    \/ OnError
    \/ Switch

SpecPair == Init /\ [][NextPair]_vars

(***************************************************************************)
(* Specification of a request whose render may be abandoned: after          *)
(* command.run() the host gives the render up, and the renderer delivers    *)
(* neither 'end' nor 'error'.  The promise of lines 300-357 stays pending;  *)
(* the only code that unlinks the temp files is in the two handlers.        *)
(***************************************************************************)
\* the render is given up: no terminal event will be delivered
Abandon ==
    /\ pc = "rendering"
    /\ pc' = "abandoned"
    /\ UNCHANGED << req, locals, files, created, unlinkAttempted, renderRuns, result,
                    call, ret, probeCalls, baseStyles, other >>

NextCancel == Next \/ Abandon

\* the renderer's terminal event, while one is due, is delivered in the end,
\* and its handler runs
SpecCancel == Init /\ [][NextCancel]_vars /\ WF_vars(OnEnd \/ OnError)

(***************************************************************************)
(* What the rendering engine makes of an enable condition.  ffmpeg's        *)
(* expression between(x, min, max) is 1 when min <= x <= max, 0 otherwise;  *)
(* a drawtext without an enable parameter is always drawn.                  *)
(***************************************************************************)
Between(x, min, max) == min <= x /\ x <= max

ActiveAt(drawtext, t) ==
    "enable" \in DOMAIN drawtext =>
        Between(t, drawtext.enable.min, drawtext.enable.max)

\* the frame times looked at: whole seconds around the windows of the captions
FrameTimes == 0..3

(***************************************************************************)
(* Properties of the requests (Spec).                                       *)
(***************************************************************************)
\* the request has settled
Settled == pc \in { "resolved", "rejected" }

\* the temp files of the request that still exist
Leftover == created \cap DOMAIN files

\* the request is an addMultipleCaptions call that passed the input and style checks
MultiCalled ==
    /\ req.op = "addMultipleCaptions"
    /\ req.inputExists
    /\ IsStyle(req.style)

\* the drawtext primitive of caption i in the filters handed to the renderer
DrawtextOf(i) ==
    IF req.style = "gif" THEN locals.videoFilters[i + 1] ELSE locals.videoFilters[i]

\* C1: once the renderer of a request has emitted its terminal event ('end'
\* or 'error'), fs.unlinkSync has been called on every temp caption file the
\* request created, and the only files of the request that still exist are
\* those whose unlink threw (at most MaxUnlinkFailures of them).
C1_CleanupAfterTerminalEvent ==
    (renderRuns > 0 /\ Settled) =>
        /\ created \subseteq unlinkAttempted
        /\ Cardinality(Leftover) <= MaxUnlinkFailures

\* C1 witness: a multi-caption render failed and every one of its files is gone
C1_Witness ==
    /\ pc = "rejected" /\ result = "RenderError"
    /\ Cardinality(created) >= 2
    /\ Leftover = {}

\* C2: a request that rejects before its render has started leaves none of
\* the temp caption files it created behind.
C2_NoTempFileLeftWithoutRender ==
    (pc = "rejected" /\ renderRuns = 0) => Leftover = {}

\* C3: addMultipleCaptions with a caption whose endTime <= startTime rejects
\* with InvalidCaption, creates no temp text file and never runs the renderer.
C3_BadWindowRejectedWithoutEffects ==
    (MultiCalled /\ \E i \in DOMAIN req.captions :
                        req.captions[i].endTime <= req.captions[i].startTime) =>
        /\ created = {}
        /\ renderRuns = 0
        /\ Settled => (pc = "rejected" /\ result = "InvalidCaption")

\* C4: addMultipleCaptions with a caption whose text is empty or missing
\* fails the whole batch: it rejects with InvalidCaption, no temp text file is
\* created for any caption and the renderer is not run, in both styles.
C4_BadTextFailsBatchAtomically ==
    (MultiCalled /\ \E i \in DOMAIN req.captions :
                        req.captions[i].text \in { Undefined, << >> }) =>
        /\ created = {}
        /\ renderRuns = 0
        /\ Settled => (pc = "rejected" /\ result = "InvalidCaption")

\* C5: in multi-caption mode the drawtext of a caption is active at time t
\* exactly when startTime <= t < endTime.
C5_HalfOpenWindow ==
    (pc = "rendering" /\ req.op = "addMultipleCaptions") =>
        \A i \in DOMAIN req.captions, t \in FrameTimes :
            ActiveAt(DrawtextOf(i), t)
                <=> (req.captions[i].startTime <= t /\ t < req.captions[i].endTime)

\* C9: a single tiktok caption is rendered without stroke: the scaled style's
\* borderw is 0, the one filter handed to the renderer is a drawtext that has
\* the box parameters and no borderw / bordercolor, and there is no pad.
C9_TiktokStrokeDisabled ==
    (pc = "rendering" /\ req.op = "addCaption" /\ req.style = "tiktok") =>
        /\ locals.styleConfig.borderw = 0
        /\ Len(locals.videoFilters) = 1
        /\ locals.videoFilters[1].filter = "drawtext"
        /\ { "box", "boxcolor", "boxborderw" } \subseteq DOMAIN locals.videoFilters[1]
        /\ { "borderw", "bordercolor" } \cap DOMAIN locals.videoFilters[1] = {}

\* the geometry the gif style's base metrics refer to
ReferenceGeometry == [ width |-> 1920, height |-> 1080 ]

\* C12: addCaption with the gif style on a 1920x1080 input hands the renderer
\* exactly two filters, the pad first and the drawtext second, and the
\* drawtext's font size is the base font size 124, the scale factor being 1.0.
C12_GifSingleAtReference ==
    (/\ pc = "rendering" /\ req.op = "addCaption" /\ req.style = "gif"
     /\ locals.videoInfo = ReferenceGeometry) =>
        /\ Len(locals.videoFilters) = 2
        /\ locals.videoFilters[1].filter = "pad"
        /\ locals.videoFilters[2].filter = "drawtext"
        /\ locals.videoFilters[2].fontsize = baseStyles.gif.baseFontsize
        /\ locals.videoFilters[2].fontsize = 124
        /\ calculateScaledFontSize(1920, 1080, "gif") = Unit

\* C12 witness: a gif caption of two words is being rendered on 1920x1080
C12_Witness ==
    /\ pc = "rendering" /\ req.op = "addCaption" /\ req.style = "gif"
    /\ req.text = TextLong
    /\ locals.videoInfo = ReferenceGeometry
    /\ renderRuns = 1

\* C13: addMultipleCaptions with the tiktok style and N captions hands the
\* renderer exactly N drawtext filters and no pad; the i-th drawtext reads the
\* temp file written for the i-th caption (a file of its own, holding that
\* caption's wrapped text) and its enable condition is built from that
\* caption's startTime and endTime.
C13_TiktokMultiOneDrawtextPerCaption ==
    (pc = "rendering" /\ req.op = "addMultipleCaptions" /\ req.style = "tiktok") =>
        /\ Len(locals.videoFilters) = Len(req.captions)
        /\ \A i \in DOMAIN req.captions :
              LET drawText == locals.videoFilters[i]
              IN  /\ drawText.filter = "drawtext"
                  /\ drawText.textfile = locals.captionFiles[i]
                  /\ drawText.textfile \in DOMAIN files
                  /\ files[drawText.textfile]
                        = WrapText(req.captions[i].text, locals.wrapLen)
                  /\ "enable" \in DOMAIN drawText
                  /\ drawText.enable = [ fn |-> "between",
                                         min |-> req.captions[i].startTime,
                                         max |-> req.captions[i].endTime ]
        /\ \A i, j \in DOMAIN req.captions :
              i # j => locals.videoFilters[i].textfile # locals.videoFilters[j].textfile

\* C13 witness: two tiktok captions with different texts and windows are
\* being rendered
C13_Witness ==
    /\ pc = "rendering" /\ req.op = "addMultipleCaptions" /\ req.style = "tiktok"
    /\ Len(req.captions) = 2
    /\ req.captions[1].text # req.captions[2].text
    /\ req.captions[1].startTime # req.captions[2].startTime
    /\ Len(locals.videoFilters) = 2

\* C14: for a gif addMultipleCaptions the filters handed to the renderer hold
\* exactly one pad, it is the first filter, and the drawtext filters, one per
\* caption in the order of the caption list, all come after it.
C14_PadFirstThenDrawtexts ==
    (pc = "rendering" /\ req.op = "addMultipleCaptions" /\ req.style = "gif") =>
        LET videoFilters == locals.videoFilters
        IN  /\ Len(videoFilters) = Len(req.captions) + 1
            /\ videoFilters[1].filter = "pad"
            /\ Cardinality({ k \in DOMAIN videoFilters :
                               videoFilters[k].filter = "pad" }) = 1
            /\ \A i \in DOMAIN req.captions :
                  /\ videoFilters[i + 1].filter = "drawtext"
                  /\ videoFilters[i + 1].textfile = locals.captionFiles[i]
                  /\ videoFilters[i + 1].enable.min = req.captions[i].startTime
                  /\ videoFilters[i + 1].enable.max = req.captions[i].endTime

\* C14 witness: two gif captions with different windows are being rendered
C14_Witness ==
    /\ pc = "rendering" /\ req.op = "addMultipleCaptions" /\ req.style = "gif"
    /\ Len(req.captions) = 2
    /\ req.captions[1].startTime # req.captions[2].startTime
    /\ Len(locals.videoFilters) = 3

\* the request is an addCaption or addMultipleCaptions call
ApiCalled == req.op \in { "addCaption", "addMultipleCaptions" }

\* the errors getVideoInfo rejects with
ProbeErrors == { "ProbeError", "NoVideoStream" }

\* C15: a request that fails before wrapping has no side effects.  A missing
\* input rejects with InputNotFound and an unknown style with UnknownStyle,
\* both without getVideoInfo being called; a failed probe rejects the request
\* with the probe's error; in all three cases no temp file was created and
\* command.run() was not called.
C15_EarlyFailureHasNoEffects ==
    /\ (ApiCalled /\ ~req.inputExists) =>
          (pc = "rejected" /\ result = "InputNotFound" /\ probeCalls = 0)
    /\ (ApiCalled /\ req.inputExists /\ ~IsStyle(req.style)) =>
          (pc = "rejected" /\ result = "UnknownStyle" /\ probeCalls = 0)
    /\ result \in ProbeErrors => (pc = "rejected" /\ probeCalls = 1)
    /\ result \in { "InputNotFound", "UnknownStyle" } \cup ProbeErrors =>
          /\ created = {} /\ files = << >>
          /\ locals = NoLocals
          /\ renderRuns = 0

\* C15 witness: the probe of an addMultipleCaptions request found no video stream
C15_Witness ==
    /\ req.op = "addMultipleCaptions" /\ req.inputExists /\ IsStyle(req.style)
    /\ pc = "rejected" /\ result = "NoVideoStream"
    /\ probeCalls = 1

\* how many temp files the request needs: one per caption
FilesNeeded == IF req.op = "addCaption" THEN 1 ELSE Len(req.captions)

\* what holds of a request in every state: command.run() was called at most
\* once, and only after the probe was called and answered and one temp file
\* per caption was made; the promise is pending until the request settles,
\* and settles either with outputPath or with an error
RequestInOrder ==
    /\ renderRuns <= 1
    /\ renderRuns = 1 =>
          /\ pc \in { "rendering", "resolved", "rejected" }
          /\ probeCalls = 1
          /\ "videoInfo" \in DOMAIN locals
          /\ Len(locals.captionFiles) = FilesNeeded
          /\ Range(locals.captionFiles) \subseteq created
    /\ pc \in { "idle", "probing", "rendering" } => result = "pending"
    /\ pc = "resolved" => (result = "outputPath" /\ renderRuns = 1)
    /\ pc = "rejected" => result \notin { "pending", "outputPath" }
    /\ (pc = "rejected" /\ renderRuns = 1) => result = "RenderError"

\* what holds of every step of a request: it moves forward along
\* idle, probing, rendering, settled; command.run() is called in the step
\* from probing to rendering, with every temp file of the request in place;
\* a settled request never changes again
StepInOrder ==
    /\ pc' # pc =>
          \/ pc = "idle" /\ pc' \in { "probing", "rejected", "cliFailed" }
          \/ pc = "probing" /\ pc' \in { "rendering", "rejected" }
          \/ pc = "rendering" /\ pc' \in { "resolved", "rejected" }
    /\ renderRuns' # renderRuns =>
          /\ pc = "probing" /\ pc' = "rendering"
          /\ renderRuns' = renderRuns + 1
          /\ Range(locals'.captionFiles) \subseteq DOMAIN files'
    /\ (pc' = "rendering" /\ pc # "rendering") => renderRuns' = renderRuns + 1
    /\ Settled => UNCHANGED << pc, result, renderRuns, probeCalls >>

\* C16: each request goes through validation, probe, wrapping and synthesis,
\* render and then settles exactly once: the renderer is run at most once and
\* only after the probe answered and all temp files were made; a render
\* error rejects the request without a second run; a request never both
\* resolves and rejects.
C16_RequestOrder == [] RequestInOrder /\ [][StepInOrder]_vars

\* C16 witness: a request was rejected with the renderer's error after one run
C16_Witness ==
    /\ pc = "rejected" /\ result = "RenderError"
    /\ renderRuns = 1 /\ probeCalls = 1

\* C17: an unlink that throws never changes the outcome of the request.  A
\* request whose renderer ran settles either resolved with outputPath (the
\* 'end' handler) or rejected with the renderer's error (the 'error'
\* handler), whichever files could not be deleted, and fs.unlinkSync has been
\* called on every caption file of the request, those after a failed one
\* included.
C17_UnlinkFailureNeverEscalates ==
    (renderRuns > 0 /\ Settled) =>
        /\ \/ pc = "resolved" /\ result = "outputPath"
           \/ pc = "rejected" /\ result = "RenderError"
        /\ Range(locals.captionFiles) \subseteq unlinkAttempted
        /\ Cardinality(Range(locals.captionFiles) \cap DOMAIN files)
              <= MaxUnlinkFailures

\* C17 witness: the render of two captions ended, the unlink of the first
\* caption's file threw, the second file is gone and the request resolved
C17_Witness ==
    /\ pc = "resolved" /\ result = "outputPath"
    /\ Len(locals.captionFiles) = 2
    /\ locals.captionFiles[1] \in DOMAIN files
    /\ locals.captionFiles[2] \notin DOMAIN files
    /\ locals.captionFiles[2] \in unlinkAttempted

\* the drawtext filters among the filters handed to the renderer
Drawtexts ==
    { k \in DOMAIN locals.videoFilters : locals.videoFilters[k].filter = "drawtext" }

\* C18: within one request either every drawtext carries the fontfile
\* parameter or none does, also when the font file appears or disappears
\* while the filters are built.
C18_FontDecisionUniform ==
    pc = "rendering" =>
        \A j, k \in Drawtexts :
            ("fontfile" \in DOMAIN locals.videoFilters[j])
                <=> ("fontfile" \in DOMAIN locals.videoFilters[k])

\* the text height calculateTextHeight estimates for caption i of the request
HeightOf(i) ==
    calculateTextHeight(req.captions[i].text, locals.wrapLen, locals.styleConfig)

\* C24: in a gif addMultipleCaptions the height of the band is one value: the
\* pad adds it and shifts the frame down by it, every caption's drawtext
\* centres its text in it, and it is the largest estimated text height of the
\* captions plus twice the scaled padding; so every caption's own height plus
\* twice the padding fits in the band.
C24_SharedBandSizedForTallest ==
    (pc = "rendering" /\ req.op = "addMultipleCaptions" /\ req.style = "gif") =>
        LET band    == locals.textAreaHeight
            padding == locals.styleConfig.textPadding
        IN  /\ locals.videoFilters[1].addHeight = band
            /\ locals.videoFilters[1].y = band
            /\ \A i \in DOMAIN req.captions :
                  /\ locals.videoFilters[i + 1].y = << "(", band, "-text_h)/2" >>
                  /\ HeightOf(i) + 2 * padding <= band
            /\ \E i \in DOMAIN req.captions : band = HeightOf(i) + 2 * padding

\* C24 witness: the second of two captions is the taller one (two lines on a
\* narrow video, the first caption one line)
C24_Witness ==
    /\ pc = "rendering" /\ req.op = "addMultipleCaptions" /\ req.style = "gif"
    /\ Len(req.captions) = 2
    /\ HeightOf(1) < HeightOf(2)
    /\ locals.textAreaHeight = HeightOf(2) + 2 * locals.styleConfig.textPadding

\* the text heights calculateTextHeight estimates for the request's captions
HeightsOfRequest ==
    IF req.op = "addCaption"
    THEN { calculateTextHeight(req.text, locals.wrapLen, locals.styleConfig) }
    ELSE { HeightOf(i) : i \in DOMAIN req.captions }

\* C25: in the gif style, single and multi mode, every estimated text height
\* is >= 0 and the band the pad adds on top of the frame is a positive
\* integer, so the padded canvas is taller than the frame.
C25_GifBandPositive ==
    (pc = "rendering" /\ req.style = "gif") =>
        LET band == locals.textAreaHeight
        IN  /\ \A height \in HeightsOfRequest : height \in Nat
            /\ band \in Nat /\ band > 0
            /\ \A height \in HeightsOfRequest :
                  height + 2 * locals.styleConfig.textPadding <= band
            /\ locals.videoFilters[1].filter = "pad"
            /\ locals.videoFilters[1].addHeight = band

\* C25 witness: a single gif caption of two lines on the 320x240 video: two
\* lines of 37, one line spacing of 9, twice the padding of 12
C25_Witness ==
    /\ pc = "rendering" /\ req.op = "addCaption" /\ req.style = "gif"
    /\ req.text = TextLong
    /\ locals.videoInfo.width = 320
    /\ locals.textAreaHeight = 107
    /\ locals.videoFilters[1].addHeight = 107

(***************************************************************************)
(* Properties of the text wrapper (SpecWrap).                               *)
(***************************************************************************)
\* the lines of a text file: the pieces between line feeds
FileLines(content) == Split(content, LF)

RECURSIVE JoinWith(_, _)
\* lines.join(sep)
JoinWith(lines, sep) ==
    IF lines = << >> THEN << >>
    ELSE IF Len(lines) = 1 THEN lines[1]
    ELSE lines[1] \o << sep >> \o JoinWith(Tail(lines), sep)

RECURSIVE WordsAcc(_, _)
\* the words of s after the word cur that is being read
WordsAcc(s, cur) ==
    IF s = << >> THEN (IF cur = << >> THEN << >> ELSE << cur >>)
    ELSE IF IsWhitespace(Head(s))
         THEN (IF cur = << >> THEN << >> ELSE << cur >>) \o WordsAcc(Tail(s), << >>)
         ELSE WordsAcc(Tail(s), Append(cur, Head(s)))

\* the words of a text, in order: its maximal runs of non-whitespace characters
Words(s) == WordsAcc(s, << >>)

\* C6: the line count calculateTextHeight uses equals the number of lines
\* wrapTextToFile writes for the same (text, maxLen).
C6_LineCountEqualsWrittenLines ==
    (ret.written # Unset /\ ret.lineCount # 0) =>
        ret.lineCount = Len(FileLines(ret.written))

\* C7: the written lines, joined with single spaces and split into words, are
\* the words of the original text in the original order.
C7_WordsPreserved ==
    ret.written # Unset =>
        Words(JoinWith(FileLines(ret.written), " ")) = Words(call.text)

\* C7 witness: a text of three words or more was wrapped into several lines
C7_Witness ==
    /\ ret.written # Unset
    /\ Len(Words(call.text)) >= 3
    /\ Len(FileLines(ret.written)) >= 2

RECURSIVE Flatten(_)
\* the concatenation of a sequence of sequences
Flatten(seqs) ==
    IF seqs = << >> THEN << >> ELSE Head(seqs) \o Flatten(Tail(seqs))

\* the written lines, each as the sequence of its words
WordsPerLine(content) ==
    LET lines == FileLines(content)
    IN  [ k \in DOMAIN lines |-> Words(lines[k]) ]

\* C22: wrapTextToFile never splits a word: the words of the written lines,
\* line after line, are the words of the text, each whole on one line, and a
\* word longer than maxLen is the only word of its line.
C22_WordsNeverSplit ==
    ret.written # Unset =>
        LET perLine == WordsPerLine(ret.written)
        IN  /\ Flatten(perLine) = Words(call.text)
            /\ \A k \in DOMAIN perLine :
                  \A i \in DOMAIN perLine[k] :
                      Len(perLine[k][i]) > call.maxLen => Len(perLine[k]) = 1

\* C22 witness: a word longer than maxLen is followed by a short word; each
\* has a line of its own
C22_Witness ==
    /\ ret.written # Unset
    /\ \A i \in DOMAIN call.text : call.text[i] # LF
    /\ Len(Words(call.text)) = 2
    /\ Len(Words(call.text)[1]) > call.maxLen
    /\ Len(Words(call.text)[2]) <= call.maxLen
    /\ \E k \in DOMAIN WordsPerLine(ret.written) :
          /\ WordsPerLine(ret.written)[k] = << Words(call.text)[1] >>
          /\ k + 1 \in DOMAIN WordsPerLine(ret.written)
          /\ WordsPerLine(ret.written)[k + 1] = << Words(call.text)[2] >>

\* C23: every written line that holds two words or more has at most maxLen
\* characters; only a line of a single word may be longer.
C23_MultiWordLinesWithinBudget ==
    ret.written # Unset =>
        \A k \in DOMAIN FileLines(ret.written) :
            Len(Words(FileLines(ret.written)[k])) >= 2 =>
                Len(FileLines(ret.written)[k]) <= call.maxLen

\* C23 witness: a line of two words fills the budget exactly and the third
\* word went to the next line
C23_Witness ==
    /\ ret.written # Unset
    /\ \A i \in DOMAIN call.text : call.text[i] # LF
    /\ Len(Words(call.text)) = 3
    /\ Len(FileLines(ret.written)) = 2
    /\ Len(Words(FileLines(ret.written)[1])) = 2
    /\ Len(FileLines(ret.written)[1]) = call.maxLen

\* a text of words separated by single spaces: not empty, no line feed, no
\* space at either end and no two spaces in a row
SingleSpaced(text) ==
    /\ text # << >>
    /\ \A i \in DOMAIN text : text[i] # LF
    /\ text[1] # " " /\ text[Len(text)] # " "
    /\ \A i \in 1..(Len(text) - 1) : ~ (text[i] = " " /\ text[i + 1] = " ")

\* C27: for a non-empty text with no leading, trailing or consecutive
\* spaces and maxLen >= 1, no written line is empty: each line holds at least
\* one word, so there are at most as many lines as words, and the line count
\* calculateTextHeight uses is at most the number of words too.
C27_NoEmptyLine ==
    SingleSpaced(call.text) =>
        /\ ret.written # Unset =>
              /\ \A k \in DOMAIN FileLines(ret.written) :
                    FileLines(ret.written)[k] # << >>
              /\ Len(FileLines(ret.written)) <= Len(Words(call.text))
        /\ ret.lineCount # 0 => ret.lineCount <= Len(Words(call.text))

(***************************************************************************)
(* Properties of the layout functions (SpecLayout).                         *)
(***************************************************************************)
\* C8: calculateWrapLength returns an integer in [15, 80] for every positive
\* videoWidth and fontSize, also when the width is below twice the padding.
C8_WrapLengthClamped ==
    call.fn = "calculateWrapLength" =>
        /\ ret.kind = "return"
        /\ ret.value \in MinWrapLength..MaxWrapLength

\* C8 witness: a width below twice the padding gave the lower limit
C8_Witness ==
    /\ call.fn = "calculateWrapLength"
    /\ call.videoWidth < 2 * call.padding
    /\ ret = Return(MinWrapLength)

\* C10: getStyleConfig returns the scaled style for a catalog style and
\* returns null, without throwing, for any other name.
C10_GetStyleConfigNullForUnknown ==
    call.fn = "getStyleConfig" =>
        IF IsStyle(call.styleName)
        THEN ret = Return(ScaledStyleOf(call.styleName, call.videoWidth,
                                        call.videoHeight))
        ELSE ret.kind = "return" /\ ret.value = "null"

\* C11: for both catalog styles and every geometry with positive width and
\* height getScaledStyle yields a font size >= 1, and a stroke width >= 1
\* when the base style's stroke width is > 0.
C11_ScaledSizesAtLeastOne ==
    (call.fn = "getScaledStyle" /\ IsStyle(call.styleName)) =>
        /\ ret.kind = "return"
        /\ ret.value.fontsize >= 1
        /\ baseStyles[call.styleName].borderw > 0 => ret.value.borderw >= 1

\* C11 witness: the smallest geometry, where the scale factor sits on its
\* lower limit: font size round(124 * 0.3), stroke round(6 * 0.3 * 0.7)
C11_Witness ==
    /\ call.fn = "getScaledStyle" /\ call.styleName = "gif"
    /\ call.videoWidth = 1 /\ call.videoHeight = 1
    /\ ret.kind = "return"
    /\ ret.value.fontsize = 37 /\ ret.value.borderw = 1

(***************************************************************************)
(* Properties of the object in use (SpecCatalog).                           *)
(***************************************************************************)
\* C19: the style catalog is never changed after construction: after any
\* sequence of addCaption, addMultipleCaptions, getScaledStyle,
\* getStyleConfig, getAvailableStyles and getBaseStyleConfig calls, failed
\* ones included, every base style has the attribute values the constructor
\* gave it, and getAvailableStyles returns the same names in the same order.
C19_CatalogNeverMutated ==
    /\ baseStyles = BaseStylesOfConstructor
    /\ call.fn = "getAvailableStyles" => ret = Return(<< "gif", "tiktok" >>)
    /\ (call.fn = "getBaseStyleConfig" /\ IsStyle(call.styleName)) =>
          ret = Return(BaseStylesOfConstructor[call.styleName])

\* C19 witness: getAvailableStyles is called after a request on a small video
\* was rendered and rejected with the renderer's error
C19_Witness ==
    /\ pc = "rejected" /\ result = "RenderError"
    /\ locals.videoInfo.width = 320
    /\ call.fn = "getAvailableStyles"
    /\ ret.kind = "return"

(***************************************************************************)
(* Properties of two requests on one object (SpecPair).                     *)
(***************************************************************************)
\* the two requests
Requests == { Running, other }

\* the texts of request r, one per temp file it needs
TextsOf(r) ==
    IF r.req.op = "addCaption" THEN << r.req.text >>
    ELSE [ i \in DOMAIN r.req.captions |-> r.req.captions[i].text ]

\* the drawtext filters request r handed to the renderer, in order
DrawtextsOf(r) ==
    SelectSeq(r.locals.videoFilters, LAMBDA f : f.filter = "drawtext")

\* request r, while its render is under way, is where it would be had it run
\* alone: the scaled style and wrap length follow from its own style and
\* probe answer, each caption has its own temp file, which exists and holds
\* that caption's wrapped text, the drawtext filters read these files in the
\* order of the captions, and the pad comes first exactly in the gif style
RendersAsAlone(r) ==
    LET layout == r.locals
        scaled == ScaledStyleOf(r.req.style, layout.videoInfo.width,
                                layout.videoInfo.height)
        texts  == TextsOf(r)
        draws  == DrawtextsOf(r)
    IN  /\ layout.styleConfig = scaled
        /\ layout.wrapLen = calculateWrapLength(layout.videoInfo.width,
                                                scaled.fontsize, DefaultPadding)
        /\ Len(layout.captionFiles) = Len(texts)
        /\ Len(draws) = Len(texts)
        /\ Len(layout.videoFilters)
              = Len(texts) + (IF r.req.style = "gif" THEN 1 ELSE 0)
        /\ r.req.style = "gif" => layout.videoFilters[1].filter = "pad"
        /\ \A i \in DOMAIN texts :
              /\ layout.captionFiles[i] \in DOMAIN files
              /\ files[layout.captionFiles[i]] = WrapText(texts[i], layout.wrapLen)
              /\ draws[i].textfile = layout.captionFiles[i]
              /\ draws[i].fontsize = scaled.fontsize

\* request r settled the way a request running alone settles
SettlesAsAlone(r) ==
    /\ r.pc = "resolved" => (r.result = "outputPath" /\ r.renderRuns = 1)
    /\ (r.pc = "rejected" /\ r.renderRuns = 1) => r.result = "RenderError"
    /\ (r.pc = "rejected" /\ ~r.req.inputExists) => r.result = "InputNotFound"
    /\ (r.pc = "rejected" /\ r.req.inputExists /\ ~IsStyle(r.req.style)) =>
          r.result = "UnknownStyle"
    /\ (r.pc = "rejected" /\ r.renderRuns = 0) => r.locals.captionFiles = << >>
    /\ r.result \in { "InputNotFound", "UnknownStyle" } => r.probeCalls = 0
    /\ r.renderRuns <= 1 /\ r.probeCalls <= 1

\* no request is disturbed by the other
PairIsolated ==
    /\ \A r \in Requests :
          /\ r.pc = "rendering" => RendersAsAlone(r)
          /\ SettlesAsAlone(r)
          /\ r.unlinkAttempted \subseteq Range(r.locals.captionFiles)
    /\ (pc = "rendering" /\ other.pc = "rendering") =>
          Range(locals.captionFiles) \cap Range(other.locals.captionFiles) = {}

\* a step deletes only temp files of the request that takes it, and changes
\* nothing of the other request
StepIsolated ==
    /\ (DOMAIN files) \ (DOMAIN files') \subseteq Range(locals.captionFiles)
    /\ \A n \in (DOMAIN files) \cap (DOMAIN files') : files'[n] = files[n]
    /\ other' = other \/ (other' = Running /\ Running' = other)

\* C20: when two requests run concurrently, under every interleaving of
\* their probe and render callbacks each request hands the renderer the
\* filters and gets the outcome it would have alone; the temp files of the
\* two requests are different files, and the cleanup of a request deletes
\* only files this request made.
C20_ConcurrentRequestsIsolated == [] PairIsolated /\ [][StepIsolated]_vars

\* C20 witness: both requests rendered at the same time; one has ended and
\* deleted its files, the other still renders, its files in place
C20_Witness ==
    /\ other.pc = "resolved" /\ other.renderRuns = 1
    /\ Len(other.locals.captionFiles) = 2
    /\ Range(other.locals.captionFiles) \cap DOMAIN files = {}
    /\ pc = "rendering"
    /\ Len(locals.captionFiles) = 2
    /\ Range(locals.captionFiles) \subseteq DOMAIN files
    /\ \E n \in Range(locals.captionFiles), m \in Range(other.locals.captionFiles) :
          n < m

\* the text files the drawtext filters of request r read
TextfilesOf(r) ==
    { r.locals.videoFilters[k].textfile :
        k \in { j \in DOMAIN r.locals.videoFilters :
                  r.locals.videoFilters[j].filter = "drawtext" } }

\* every text file a rendering request's filters read exists
TextfilesInPlace ==
    \A r \in Requests : r.pc = "rendering" => TextfilesOf(r) \subseteq DOMAIN files

\* every file name fs.unlinkSync was called on, by either request
AllUnlinkAttempted == unlinkAttempted \cup other.unlinkAttempted

\* a step that unlinks, or removes a file, is the terminal-event handler of
\* the running request, and it unlinks the caption files of that request only
UnlinkOnlyInHandler ==
    (AllUnlinkAttempted' # AllUnlinkAttempted
        \/ ~ (DOMAIN files \subseteq DOMAIN files')) =>
        /\ pc = "rendering" /\ pc' \in { "resolved", "rejected" }
        /\ req' = req /\ other' = other
        /\ (DOMAIN files) \ (DOMAIN files') \subseteq Range(locals.captionFiles)
        /\ unlinkAttempted' = unlinkAttempted \cup Range(locals.captionFiles)

\* C26: no temp caption file is deleted while its request is rendering.
\* fs.unlinkSync is called only in the 'end' or 'error' handler of a render,
\* on that request's caption files, so every text file a drawtext filter of a
\* rendering request reads exists from command.run() until the request's
\* terminal event, also while another request of the object settles.
C26_NoUnlinkWhileRendering == [] TextfilesInPlace /\ [][UnlinkOnlyInHandler]_vars

\* C26 witness: one request's render has ended and its caption files are
\* gone, while the other request is still rendering with its files in place
C26_Witness ==
    /\ pc = "rendering"
    /\ other.pc = "resolved" /\ other.renderRuns = 1
    /\ Range(other.locals.captionFiles) \cap DOMAIN files = {}
    /\ TextfilesOf(Running) # {}
    /\ TextfilesOf(Running) \subseteq DOMAIN files

(***************************************************************************)
(* Properties of a request whose render may be abandoned (SpecCancel).      *)
(***************************************************************************)
\* the temp files of the request's captions that still exist
CaptionFilesLeft == Range(locals.captionFiles) \cap DOMAIN files

\* C21: if the render is abandoned after it started, so that neither 'end'
\* nor 'error' is delivered, the temp files the request created are still
\* deleted in the end.
C21_AbandonedRenderCleansUp ==
    (pc = "abandoned") ~> (CaptionFilesLeft = {})

====
